---- MODULE Spec2Model ----
(***************************************************************************)
(* A model of quart_rate_limiter (src/src/quart_rate_limiter/__init__.py   *)
(* and store.py): the GCRA admission check, the commit of the theoretical  *)
(* arrival times (TATs), the resolution of an endpoint's limits, the key   *)
(* derivation and the response headers.                                    *)
(*                                                                         *)
(* Time is counted in ticks of half a second (TicksPerSecond), so that     *)
(* request times off a whole-second boundary exist.  Every period and      *)
(* emission interval of the limits the model draws is a whole number of    *)
(* ticks, so the float arithmetic of the source is exact on them.          *)
(***************************************************************************)
EXTENDS Integers, Sequences, FiniteSets, TLC

VARIABLES
    now,        \* the clock datetime.utcnow() reads, in ticks
    tats,       \* MemoryStore._tats: key -> TAT
    viewAttr,   \* per view function: its _quart_rate_limiter_limits attribute
    exemptAttr, \* per view function: its _quart_rate_limiter_exempt attribute
    bpAttr,     \* per blueprint: its _quart_rate_limiter_limits attribute
    limiter,    \* the RateLimiter: default limits, key and skip function
    enabled,    \* app.config["QUART_RATE_LIMITER_ENABLED"]
    last,       \* the most recently handled request and its response
    nreq,       \* number of requests handled so far
    adm,        \* history: per store key, the times of its recent admissions
    rej,        \* history: per store key, its pending rejection
    burst,      \* history: per store key, the burst running at one instant
    aux         \* inputs and results of the pure-function specifications

vars == <<now, tats, viewAttr, exemptAttr, bpAttr, limiter, enabled, last,
          nreq, adm, rej, burst, aux>>

----------------------------------------------------------------------------
(* Bounds of the model *)

MaxTime == 2
MaxDelay == 1
MaxRequests == 3
MaxListLen == 8
MaxSetupRequests == 2

(* Half-second ticks: the sub-second resolution of datetime, coarsened. *)
TicksPerSecond == 2

None == "None"

(* An object's _quart_rate_limiter_limits attribute: absent, or a list *)
NoAttr == [present |-> FALSE, list |-> <<>>]
Attr(list) == [present |-> TRUE, list |-> list]

----------------------------------------------------------------------------
(* RateLimit *)

RateLimit(count, period, key_function, skip_function) ==
    [count |-> count, period |-> period,
     key_function |-> key_function, skip_function |-> skip_function]

(* period.total_seconds() / count, in ticks *)
Inverse(rate_limit) == rate_limit.period \div rate_limit.count

(* str() of the float period.total_seconds() *)
TotalSecondsStr(period) ==
    ToString(period \div TicksPerSecond) \o "." \o
        (IF period % TicksPerSecond = 0 THEN "0" ELSE "5")

(* RateLimit.key *)
LimitKey(rate_limit) ==
    ToString(rate_limit.count) \o "-" \o TotalSecondsStr(rate_limit.period)

(* int() of a float number of seconds given in ticks: truncation to zero *)
IntSeconds(ticks) ==
    IF ticks >= 0 THEN ticks \div TicksPerSecond
                  ELSE -((-ticks) \div TicksPerSecond)

(* int(a / b) for b > 0: truncation to zero *)
IntDiv(a, b) == IF a >= 0 THEN a \div b ELSE -((-a) \div b)

Max(a, b) == IF a >= b THEN a ELSE b

----------------------------------------------------------------------------
(* MemoryStore *)

StoreGet(store, key, default) ==
    IF key \in DOMAIN store THEN store[key] ELSE default

(* StoreSet keeping the value a key already has *)
StoreSetKeepingFirst(store, key, tat) ==
    [k \in (DOMAIN store) \cup {key} |-> IF k \in DOMAIN store THEN store[k] ELSE tat]

StoreSet(store, key, tat) ==
    [k \in (DOMAIN store) \cup {key} |-> IF k = key THEN tat ELSE store[k]]

EmptyStore == [k \in {} |-> 0]

----------------------------------------------------------------------------
(* Key and skip functions *)

(* await key_function(): remote_addr_key reads the request's address *)
CallKeyFunction(key_function, req) ==
    IF key_function = "remote_addr_key" THEN req.addr ELSE "shared"

(* _create_key taking the limiter's key function before the limit's own *)
CreateKeyInLimiterFirst(app_name, endpoint, rate_limit, lim, req) ==
    LET key_function == IF lim.key_function # None
                        THEN lim.key_function ELSE rate_limit.key_function
        key == CallKeyFunction(key_function, req)
    IN  app_name \o "-" \o endpoint \o "-" \o LimitKey(rate_limit) \o "-" \o key

(* RateLimiter._create_key, given the application's import name *)
CreateKeyIn(app_name, endpoint, rate_limit, lim, req) ==
    LET key_function == IF rate_limit.key_function # None
                        THEN rate_limit.key_function ELSE lim.key_function
        key == CallKeyFunction(key_function, req)
    IN  app_name \o "-" \o endpoint \o "-" \o LimitKey(rate_limit) \o "-" \o key

AppName == "app"

CreateKey(endpoint, rate_limit, lim, req) ==
    CreateKeyIn(AppName, endpoint, rate_limit, lim, req)

(* await skip_function(): the test suite's function reads the X-Skip header *)
CallSkipFunction(skip_function, req) == req.xskip

(* RateLimiter._should_skip *)
ShouldSkip(rate_limit, lim, req) ==
    LET skip_function == IF rate_limit.skip_function # None
                         THEN rate_limit.skip_function ELSE lim.skip_function
    IN  IF skip_function = None THEN FALSE
        ELSE CallSkipFunction(skip_function, req)

----------------------------------------------------------------------------
(* The application: its view functions and blueprints *)

(* request.blueprint: the part of the endpoint's name before its last dot *)
RequestBlueprint(endpoint) == IF endpoint = "blue.index" THEN "blue" ELSE None

(* getattr(obj, QUART_RATE_LIMITER_LIMITS_ATTRIBUTE, []) of an attribute value *)
AttrOrEmpty(attr) == IF attr.present THEN attr.list ELSE <<>>

(* getattr(blueprint, QUART_RATE_LIMITER_LIMITS_ATTRIBUTE, []), where blueprint
   is current_app.blueprints.get(request.blueprint), possibly None *)
BlueprintLimits(bp, endpoint) ==
    IF RequestBlueprint(endpoint) \in DOMAIN bp
    THEN AttrOrEmpty(bp[RequestBlueprint(endpoint)]) ELSE <<>>

(* The limits attribute and exempt attribute of
   current_app.view_functions.get(endpoint), possibly None *)
ViewLimitsAttr(va, endpoint) ==
    IF endpoint \in DOMAIN va THEN va[endpoint] ELSE NoAttr

ViewExempt(ex, endpoint) ==
    IF endpoint \in DOMAIN ex THEN ex[endpoint] ELSE FALSE

(* The list object rate_limits.extend(...) leaves behind: the attribute's own
   list is extended in place, a missing attribute gives a fresh list *)
ExtendedAttr(attr, extended) == IF attr.present THEN Attr(extended) ELSE NoAttr

(* GetLimitsForViewFunction without the test of the exempt attribute *)
GetLimitsIgnoringExempt(attr, exempt, bp_limits, default_limits) ==
    LET rate_limits == AttrOrEmpty(attr) \o bp_limits \o default_limits
    IN  [limits |-> rate_limits, attr |-> ExtendedAttr(attr, rate_limits)]

(* RateLimiter._get_limits_for_view_function: the list it returns and the
   value of the view function's limits attribute afterwards *)
GetLimitsForViewFunction(attr, exempt, bp_limits, default_limits) ==
    IF exempt
    THEN [limits |-> <<>>, attr |-> attr]
    ELSE LET rate_limits == AttrOrEmpty(attr) \o bp_limits \o default_limits
         IN  [limits |-> rate_limits, attr |-> ExtendedAttr(attr, rate_limits)]

SetAttr(va, endpoint, attr) ==
    IF endpoint \in DOMAIN va THEN [va EXCEPT ![endpoint] = attr] ELSE va

----------------------------------------------------------------------------
(* The GCRA check and commit *)

(* NotSkipped keeping every limit, whatever its skip function returns *)
NotSkippedKeepingAll(rate_limits, lim, req) == rate_limits

(* the list comprehension of _before_request: the limits not skipped *)
NotSkipped(rate_limits, lim, req) ==
    LET Keep(l) == ~ShouldSkip(l, lim, req)
    IN  SelectSeq(rate_limits, Keep)

(* tat = max(await self.store.get(key, now), now) *)
ReadTat(store, key, t) == Max(StoreGet(store, key, t), t)

MaxInterval(rate_limit) == rate_limit.period - Inverse(rate_limit)

(* a check that never rejects *)
RejectsNever(rate_limit, tat, t) == FALSE

(* the test of _raise_on_rejection: separation > max_interval *)
Rejects(rate_limit, tat, t) == (tat - t) > MaxInterval(rate_limit)

(* RetryAfter rounded up to the next whole second instead of truncated *)
RetryAfterRoundedUp(rate_limit, tat, t) ==
    (((tat - MaxInterval(rate_limit)) - t) + TicksPerSecond - 1) \div TicksPerSecond

(* int(((tat - timedelta(seconds=max_interval)) - now).total_seconds()) *)
RetryAfter(rate_limit, tat, t) ==
    IntSeconds((tat - MaxInterval(rate_limit)) - t)

(* RaiseOnRejection running its loop over every limit and raising for the
   last one that rejects *)
RaiseOnRejectionLastFailing(endpoint, rate_limits, lim, req, store, t) ==
    LET Key(i) == CreateKey(endpoint, rate_limits[i], lim, req)
        Tat(i) == ReadTat(store, Key(i), t)
        failing == {i \in 1..Len(rate_limits) : Rejects(rate_limits[i], Tat(i), t)}
    IN  IF failing = {}
        THEN [rejected |-> FALSE, retry_after |-> -1, index |-> 0,
              reads |-> {Key(i) : i \in 1..Len(rate_limits)}]
        ELSE LET i0 == CHOOSE i \in failing : \A j \in failing : j <= i
             IN  [rejected |-> TRUE,
                  retry_after |-> RetryAfter(rate_limits[i0], Tat(i0), t),
                  index |-> i0,
                  reads |-> {Key(i) : i \in 1..Len(rate_limits)}]

(* RateLimiter._raise_on_rejection: the loop stops at the first limit that
   rejects; the store is only read *)
RaiseOnRejection(endpoint, rate_limits, lim, req, store, t) ==
    LET Key(i) == CreateKey(endpoint, rate_limits[i], lim, req)
        Tat(i) == ReadTat(store, Key(i), t)
        failing == {i \in 1..Len(rate_limits) : Rejects(rate_limits[i], Tat(i), t)}
    IN  IF failing = {}
        THEN [rejected |-> FALSE, retry_after |-> -1, index |-> 0,
              reads |-> {Key(i) : i \in 1..Len(rate_limits)}]
        ELSE LET i0 == CHOOSE i \in failing : \A j \in failing : i <= j
             IN  [rejected |-> TRUE,
                  retry_after |-> RetryAfter(rate_limits[i0], Tat(i0), t),
                  index |-> i0,
                  reads |-> {Key(i) : i \in 1..i0}]

(* NewTat advancing by two emission intervals *)
NewTatTwoIntervals(rate_limit, tat, t) == Max(tat, t) + 2 * Inverse(rate_limit)

(* new_tat = max(tat, now) + timedelta(seconds=rate_limit.inverse) *)
NewTat(rate_limit, tat, t) == Max(tat, t) + Inverse(rate_limit)

(* RateLimiter._update_limits: one get and one set per entry of the list *)
RECURSIVE UpdateLimits(_, _, _, _, _, _)
UpdateLimits(endpoint, rate_limits, lim, req, store, t) ==
    IF rate_limits = <<>> THEN store
    ELSE LET rate_limit == Head(rate_limits)
             key == CreateKey(endpoint, rate_limit, lim, req)
             tat == ReadTat(store, key, t)
         IN  UpdateLimits(endpoint, Tail(rate_limits), lim, req,
                          StoreSet(store, key, NewTat(rate_limit, tat, t)), t)

(* StoreAfterPrePhase committing whether or not a limit rejected *)
StoreCommittedAlways(rejected, endpoint, rate_limits, lim, req, store, t) ==
    UpdateLimits(endpoint, rate_limits, lim, req, store, t)

(* The store after the pre-phase: committed only when no limit rejected *)
StoreAfterPrePhase(rejected, endpoint, rate_limits, lim, req, store, t) ==
    IF rejected THEN store
    ELSE UpdateLimits(endpoint, rate_limits, lim, req, store, t)

----------------------------------------------------------------------------
(* The response headers *)

(* MinLimitIndex taking the last limit of the smallest period *)
MinLimitIndexLastWins(rate_limits) ==
    CHOOSE i \in 1..Len(rate_limits) :
        /\ \A j \in 1..Len(rate_limits) : rate_limits[i].period <= rate_limits[j].period
        /\ \A j \in (i + 1)..Len(rate_limits) : rate_limits[j].period > rate_limits[i].period

(* min(rate_limits, key=period): the first limit of the smallest period *)
MinLimitIndex(rate_limits) ==
    CHOOSE i \in 1..Len(rate_limits) :
        /\ \A j \in 1..Len(rate_limits) : rate_limits[i].period <= rate_limits[j].period
        /\ \A j \in 1..(i - 1) : rate_limits[j].period > rate_limits[i].period

NoHeaders == [h \in {} |-> 0]

(* remaining = int((period - separation) / inverse) *)
Remaining(rate_limit, separation) ==
    IntDiv(rate_limit.period - separation, Inverse(rate_limit))

(* RateLimitHeaders without the RateLimit-Reset header *)
RateLimitHeadersWithoutReset(min_limit, tat, t) ==
    [h \in {"RateLimit-Limit", "RateLimit-Remaining"} |->
        IF h = "RateLimit-Limit" THEN min_limit.count
        ELSE Remaining(min_limit, tat - t)]

(* the else branch of _after_request: the three RateLimit headers *)
RateLimitHeaders(min_limit, tat, t) ==
    LET separation == tat - t
    IN  [h \in {"RateLimit-Limit", "RateLimit-Remaining", "RateLimit-Reset"} |->
            CASE h = "RateLimit-Limit" -> min_limit.count
              [] h = "RateLimit-Remaining" -> Remaining(min_limit, separation)
              [] OTHER -> IntSeconds(separation)]

(* AfterRequest storing the TAT it read for the reported limit *)
AfterRequestWriting(endpoint, rate_limits, lim, req, store, t) ==
    IF rate_limits = <<>>
    THEN [headers |-> NoHeaders, reads |-> {}, store |-> store]
    ELSE LET min_limit == rate_limits[MinLimitIndex(rate_limits)]
             key == CreateKey(endpoint, min_limit, lim, req)
             tat == ReadTat(store, key, t)
         IN  [headers |-> RateLimitHeaders(min_limit, tat, t), reads |-> {key},
              store |-> StoreSet(store, key, tat)]

(* RateLimiter._after_request past the enabled test: headers and store reads;
   the store is left as it is *)
AfterRequest(endpoint, rate_limits, lim, req, store, t) ==
    IF rate_limits = <<>>
    THEN [headers |-> NoHeaders, reads |-> {}, store |-> store]
    ELSE LET min_limit == rate_limits[MinLimitIndex(rate_limits)]
             key == CreateKey(endpoint, min_limit, lim, req)
             tat == ReadTat(store, key, t)
         IN  [headers |-> RateLimitHeaders(min_limit, tat, t), reads |-> {key},
              store |-> store]

----------------------------------------------------------------------------
(* The two request hooks *)

(* RateLimiter._before_request *)
BeforeRequest(store, va, ex, bp, lim, en, req, t1, t2) ==
    LET endpoint == req.endpoint
        pass == [rejected |-> FALSE, retry_after |-> -1, index |-> 0,
                 checked |-> <<>>, reads |-> {}, store |-> store, viewAttr |-> va]
    IN  IF ~en THEN pass
        ELSE IF endpoint \notin DOMAIN va THEN pass
        ELSE LET got == GetLimitsForViewFunction(
                            ViewLimitsAttr(va, endpoint), ViewExempt(ex, endpoint),
                            BlueprintLimits(bp, endpoint), lim.default_limits)
                 rate_limits == NotSkipped(got.limits, lim, req)
                 check == RaiseOnRejection(endpoint, rate_limits, lim, req, store, t1)
             IN  [rejected |-> check.rejected,
                  retry_after |-> check.retry_after,
                  index |-> check.index,
                  checked |-> rate_limits,
                  reads |-> check.reads,
                  store |-> StoreAfterPrePhase(check.rejected, endpoint,
                                               rate_limits, lim, req, store, t2),
                  viewAttr |-> SetAttr(va, endpoint, got.attr)]

(* AfterRequestHook without the test of QUART_RATE_LIMITER_ENABLED *)
AfterRequestHookIgnoringFlag(store, va, ex, bp, lim, en, req, t3) ==
    LET endpoint == req.endpoint
        got == GetLimitsForViewFunction(
                   ViewLimitsAttr(va, endpoint), ViewExempt(ex, endpoint),
                   BlueprintLimits(bp, endpoint), lim.default_limits)
        after == AfterRequest(endpoint, got.limits, lim, req, store, t3)
    IN  [headers |-> after.headers, reads |-> after.reads, store |-> after.store,
         viewAttr |-> SetAttr(va, endpoint, got.attr)]

(* RateLimiter._after_request *)
AfterRequestHook(store, va, ex, bp, lim, en, req, t3) ==
    LET endpoint == req.endpoint
    IN  IF ~en THEN [headers |-> NoHeaders, reads |-> {}, store |-> store,
                     viewAttr |-> va]
        ELSE LET got == GetLimitsForViewFunction(
                            ViewLimitsAttr(va, endpoint), ViewExempt(ex, endpoint),
                            BlueprintLimits(bp, endpoint), lim.default_limits)
                 after == AfterRequest(endpoint, got.limits, lim, req, store, t3)
             IN  [headers |-> after.headers, reads |-> after.reads,
                  store |-> after.store,
                  viewAttr |-> SetAttr(va, endpoint, got.attr)]

(* One request through the application: the before-request hook, the view
   function (or the error response of a rejection or of a missing view
   function), then the after-request hook, which the framework runs on every
   response *)
Handle(store, va, ex, bp, lim, en, req, t1, t2, t3) ==
    LET pre == BeforeRequest(store, va, ex, bp, lim, en, req, t1, t2)
        post == AfterRequestHook(pre.store, pre.viewAttr, ex, bp, lim, en, req, t3)
        keys == [i \in 1..Len(pre.checked) |->
                    CreateKey(req.endpoint, pre.checked[i], lim, req)]
    IN  [status |-> IF pre.rejected THEN 429
                    ELSE IF req.endpoint \in DOMAIN va THEN 200 ELSE 404,
         retry_after |-> pre.retry_after,
         headers |-> post.headers,
         checked |-> pre.checked,
         keys |-> keys,
         index |-> pre.index,
         reads |-> pre.reads \cup post.reads,
         pre_reads |-> pre.reads,
         store |-> post.store,
         viewAttr |-> post.viewAttr]

----------------------------------------------------------------------------
(* History kept beside the program's state, for the claims about sequences
   of requests *)

EmptyMap == [k \in {} |-> 0]

(* The checked limit whose store key is k *)
LimitOfKey(resp, k) ==
    resp.checked[CHOOSE i \in 1..Len(resp.checked) : resp.keys[i] = k]

KeySet(resp) == {resp.keys[i] : i \in 1..Len(resp.keys)}

Admitted(resp) == resp.status = 200

(* the admission times of key k that can share a window of length period
   with an admission at time t or later *)
Recent(times, period, t) ==
    LET Keep(a) == a + period > t
    IN  SelectSeq(times, Keep)

(* commit: the instant t2 of the key's latest commit *)
AdmAfterRequest(h, resp, t1, t2) ==
    IF ~Admitted(resp) THEN h
    ELSE [k \in (DOMAIN h) \cup KeySet(resp) |->
            IF k \in KeySet(resp)
            THEN LET l == LimitOfKey(resp, k)
                     old == IF k \in DOMAIN h THEN h[k].times ELSE <<>>
                 IN  [count |-> l.count, period |-> l.period,
                      times |-> Append(Recent(old, l.period, t1), t1),
                      commit |-> t2]
            ELSE h[k]]

AdmAfterTick(h, t) ==
    LET keep == {k \in DOMAIN h : \/ Recent(h[k].times, h[k].period, t) # <<>>
                                  \/ h[k].commit + h[k].period > t}
    IN  [k \in keep |-> [h[k] EXCEPT !.times = Recent(h[k].times, h[k].period, t)]]

(* rej[k]: the latest instant t + retry_after of the rejections of key k *)
RejAfterRequest(h, resp, t1, t) ==
    LET k == resp.keys[resp.index]
        until == t1 + resp.retry_after * TicksPerSecond
        h2 == IF resp.status # 429 THEN h
              ELSE [x \in (DOMAIN h) \cup {k} |->
                      IF x = k THEN (IF k \in DOMAIN h THEN Max(h[k], until) ELSE until)
                      ELSE h[x]]
    IN  [x \in {y \in DOMAIN h2 : h2[y] >= t} |-> h2[x]]

(* burst[k]: the number n of requests admitted on key k at the one instant t,
   counted from a state in which the bucket of k was empty at t *)
BurstAfterRequest(h, resp, store, t1, t2, t) ==
    LET h2 == IF ~Admitted(resp) THEN h
              ELSE LET started == {k \in KeySet(resp) \ DOMAIN h :
                                      t1 = t2 /\ StoreGet(store, k, t1) <= t1}
                       running == {k \in KeySet(resp) \cap DOMAIN h : t1 = t2}
                       others == (DOMAIN h) \ KeySet(resp)
                   IN  [k \in started \cup running \cup others |->
                          IF k \in started
                          THEN [t |-> t1, n |-> 1, count |-> LimitOfKey(resp, k).count]
                          ELSE IF k \in running THEN [h[k] EXCEPT !.n = @ + 1]
                          ELSE h[k]]
    IN  [k \in {y \in DOMAIN h2 : h2[y].t = t} |-> h2[k]]

----------------------------------------------------------------------------
(* The limits and applications the model draws *)

L_1_1s == RateLimit(1, 2, None, None)
L_2_1s == RateLimit(2, 2, None, None)
L_3_1_5s == RateLimit(3, 3, None, None)
L_10_20s == RateLimit(10, 40, None, None)

(* A limit with a skip function of its own *)
L_1_1s_skip == RateLimit(1, 2, None, "_skip_function")

(* The applications: one view function, registered on the application or on
   the blueprint "blue", decorated with rate_limit or not, exempt or not *)
ViewEndpoints == {"index", "blue.index"}
HandlerAttrs == {NoAttr, Attr(<<L_10_20s>>), Attr(<<L_10_20s, L_1_1s_skip>>)}
BlueprintAttrs == {Attr(<<L_2_1s>>)}
DefaultLists == {<<>>, <<L_3_1_5s>>}
SkipFunctions == {None, "_skip_function"}

(* Whether a limit of the list has a skip function of its own *)
HasOwnSkip(list) == \E i \in 1..Len(list) : list[i].skip_function # None

Addrs == {"a", "b"}
(* The requests: to the view function, or to no view function (endpoint
   None), where neither the skip function nor a second caller is drawn *)
Requests(va) ==
    {r \in [endpoint : (DOMAIN va) \cup {None}, addr : Addrs, xskip : BOOLEAN] :
        r.endpoint = None => (~r.xskip /\ r.addr = "a")}

NoRequest ==
    [req |-> [endpoint |-> None, addr |-> "a", xskip |-> FALSE],
     t1 |-> 0, t2 |-> 0, t3 |-> 0,
     status |-> 0, retry_after |-> -1, headers |-> NoHeaders,
     checked |-> <<>>, keys |-> <<>>, index |-> 0, reads |-> {},
     pre_reads |-> {}]

----------------------------------------------------------------------------
(* The state machine *)

Init ==
    /\ now = 0
    /\ tats = EmptyStore
    /\ \E e \in ViewEndpoints, h \in HandlerAttrs, b \in BlueprintAttrs, x \in BOOLEAN :
          /\ viewAttr = [v \in {e} |-> h]
          /\ exemptAttr = [v \in {e} |-> x]
          /\ bpAttr = [p \in {RequestBlueprint(e)} \ {None} |-> b]
    /\ \E d \in DefaultLists, s \in SkipFunctions :
          \* a limiter without a skip function is drawn where a limit has its own
          /\ s = None => \E v \in DOMAIN viewAttr : HasOwnSkip(viewAttr[v].list)
          /\ limiter = [default_limits |-> d, key_function |-> "remote_addr_key",
                        skip_function |-> s]
    /\ enabled \in BOOLEAN
    \* an exempt view function and a disabled application are drawn with
    \* limits on the handler and in the defaults, and not together
    /\ \A v \in DOMAIN viewAttr :
          (exemptAttr[v] \/ ~enabled) =>
              /\ viewAttr[v].present
              /\ limiter.default_limits # <<>>
              /\ ~(exemptAttr[v] /\ ~enabled)
    /\ last = NoRequest
    /\ nreq = 0
    /\ adm = EmptyMap
    /\ rej = EmptyMap
    /\ burst = EmptyMap
    /\ aux = [phase |-> "none"]

(* The clock advances between requests *)
Tick ==
    /\ now < MaxTime
    /\ now' = now + 1
    /\ adm' = AdmAfterTick(adm, now + 1)
    /\ rej' = [k \in {y \in DOMAIN rej : rej[y] >= now + 1} |-> rej[k]]
    /\ burst' = EmptyMap
    /\ UNCHANGED <<tats, viewAttr, exemptAttr, bpAttr, limiter, enabled, last, nreq, aux>>

(* One request is handled from its before-request hook to its response; the
   clock may advance between the check, the commit and the after-request hook *)
HandleRequest ==
    /\ nreq < MaxRequests
    /\ \E req \in Requests(viewAttr), d1 \in {0, MaxDelay}, d2 \in {0, MaxDelay} :
          LET t1 == now
              t2 == now + d1
              t3 == now + d1 + d2
          IN  \E resp \in {Handle(tats, viewAttr, exemptAttr, bpAttr, limiter, enabled,
                                  req, t1, t2, t3)} :
              /\ d1 + d2 <= MaxDelay
              /\ t3 <= MaxTime
              /\ \A v \in DOMAIN viewAttr : Len(resp.viewAttr[v].list) <= MaxListLen
              /\ now' = t3
              /\ tats' = resp.store
              /\ viewAttr' = resp.viewAttr
              /\ last' = [req |-> req, t1 |-> t1, t2 |-> t2, t3 |-> t3,
                          status |-> resp.status, retry_after |-> resp.retry_after,
                          headers |-> resp.headers, checked |-> resp.checked,
                          keys |-> resp.keys, index |-> resp.index,
                          reads |-> resp.reads, pre_reads |-> resp.pre_reads]
              /\ nreq' = nreq + 1
              /\ adm' = AdmAfterRequest(adm, resp, t1, t2)
              /\ rej' = RejAfterRequest(rej, resp, t1, t3)
              /\ burst' = BurstAfterRequest(burst, resp, tats, t1, t2, t3)
    /\ UNCHANGED <<exemptAttr, bpAttr, limiter, enabled, aux>>

Next == Tick \/ HandleRequest

Spec == Init /\ [][Next]_vars

----------------------------------------------------------------------------
(* Key derivation on its own: two tuples (application name, endpoint name,
   limit, caller identity) are drawn and their store keys derived *)

AppNames == {"shop", "shop-api"}
EndpointNames == {"index", "api-index", "index-1-1.0-a"}
KeyLimits == {L_1_1s, L_2_1s}
CallerIds == {"a", "a-1-1.0-a"}

KeyInputs == [app : AppNames, endpoint : EndpointNames, limit : KeyLimits,
              caller : CallerIds]

KeyLimiter == [default_limits |-> <<>>, key_function |-> "remote_addr_key",
               skip_function |-> None]

KeyOf(input) ==
    CreateKeyIn(input.app, input.endpoint, input.limit, KeyLimiter,
                [endpoint |-> input.endpoint, addr |-> input.caller, xskip |-> FALSE])

InitKey ==
    /\ now = 0
    /\ tats = EmptyStore
    /\ viewAttr = [v \in {"index"} |-> NoAttr]
    /\ exemptAttr = [v \in {"index"} |-> FALSE]
    /\ bpAttr = EmptyMap
    /\ limiter = KeyLimiter
    /\ enabled = TRUE
    /\ last = NoRequest
    /\ nreq = 0
    /\ adm = EmptyMap
    /\ rej = EmptyMap
    /\ burst = EmptyMap
    /\ \E a \in KeyInputs, b \in KeyInputs :
          aux = [phase |-> "input", a |-> a, b |-> b, key_a |-> "", key_b |-> ""]

CreateKeys ==
    /\ aux.phase = "input"
    /\ aux' = [aux EXCEPT !.phase = "done", !.key_a = KeyOf(aux.a), !.key_b = KeyOf(aux.b)]
    /\ UNCHANGED <<now, tats, viewAttr, exemptAttr, bpAttr, limiter, enabled, last,
                   nreq, adm, rej, burst>>

NextKey == CreateKeys

SpecKey == InitKey /\ [][NextKey]_vars

----------------------------------------------------------------------------
(* Construction and attachment on their own: a RateLimiter is constructed
   with or without the application, attached with init_app if it was not,
   and then serves requests *)

(* app.config.setdefault("QUART_RATE_LIMITER_ENABLED", enabled): the value of
   the key afterwards *)
ConfigSetDefault(defined, current, value) == IF defined THEN current ELSE value

(* The enabled parameter of init_app as the call binds it: its default True
   unless the caller passes a value *)
InitAppEnabled(given, value) == IF given THEN value ELSE TRUE

SetupView == [v \in {"index"} |-> Attr(<<L_1_1s>>)]

InitSetup ==
    /\ now = 0
    /\ tats = EmptyStore
    /\ viewAttr = SetupView
    /\ exemptAttr = [v \in {"index"} |-> FALSE]
    /\ bpAttr = EmptyMap
    /\ limiter = KeyLimiter
    /\ \E defined \in BOOLEAN, value \in BOOLEAN :
          /\ defined \/ value
          /\ enabled = value
          /\ aux = [phase |-> "new", predefined |-> defined, defined |-> defined,
                    with_app |-> FALSE, ctor_enabled |-> TRUE,
                    init_given |-> FALSE]
    /\ last = NoRequest
    /\ nreq = 0
    /\ adm = EmptyMap
    /\ rej = EmptyMap
    /\ burst = EmptyMap

(* RateLimiter.__init__: with an application it calls init_app(app,
   enabled=enabled); without one the enabled argument is not kept *)
Construct ==
    /\ aux.phase = "new"
    /\ \E with_app \in BOOLEAN, en \in BOOLEAN :
          /\ aux' = [aux EXCEPT !.phase = IF with_app THEN "attached" ELSE "constructed",
                                 !.with_app = with_app,
                                 !.ctor_enabled = en,
                                 !.init_given = with_app,
                                 !.defined = with_app \/ aux.defined]
          /\ enabled' = IF with_app
                         THEN ConfigSetDefault(aux.defined, enabled,
                                               InitAppEnabled(TRUE, en))
                         ELSE enabled
    /\ UNCHANGED <<now, tats, viewAttr, exemptAttr, bpAttr, limiter, last, nreq,
                   adm, rej, burst>>

(* RateLimiter.init_app called by the application factory *)
InitApp ==
    /\ aux.phase = "constructed"
    /\ \E given \in BOOLEAN, value \in BOOLEAN :
          /\ given \/ value
          /\ aux' = [aux EXCEPT !.phase = "attached", !.init_given = given,
                                 !.defined = TRUE]
          /\ enabled' = ConfigSetDefault(aux.defined, enabled,
                                         InitAppEnabled(given, value))
    /\ UNCHANGED <<now, tats, viewAttr, exemptAttr, bpAttr, limiter, last, nreq,
                   adm, rej, burst>>

(* The hooks run once init_app has registered them *)
ServeRequest ==
    /\ aux.phase = "attached"
    /\ nreq < MaxSetupRequests
    /\ HandleRequest

ClockTick == aux.phase = "attached" /\ Tick

NextSetup == Construct \/ InitApp \/ ServeRequest \/ ClockTick

SpecSetup == InitSetup /\ [][NextSetup]_vars

----------------------------------------------------------------------------
(* Attachment on its own: rate_limit decorates a view function and
   limit_blueprint marks a blueprint, each called with a limit, a period and
   a limits list of which any may be left out *)

(* None as the value of the limit or the period argument *)
NoValue == -1

(* rate_limit and limit_blueprint up to the attachment (lines 94-99 and
   168-173): a ValueError, or the list of limits to attach.  The limits
   argument is None (NoAttr) or a list *)
ArgumentLimitsNoConflict(limit, period, key_function, skip_function, limits) ==
    IF limit # NoValue \/ period # NoValue
    THEN [raised |-> FALSE,
          limits |-> <<RateLimit(limit, period, key_function, skip_function)>>]
    ELSE IF ~limits.present
         THEN [raised |-> TRUE, limits |-> <<>>]
         ELSE [raised |-> FALSE, limits |-> limits.list]

ArgumentLimits(limit, period, key_function, skip_function, limits) ==
    IF limit # NoValue \/ period # NoValue
    THEN IF limits.present
         THEN [raised |-> TRUE, limits |-> <<>>]
         ELSE [raised |-> FALSE,
               limits |-> <<RateLimit(limit, period, key_function, skip_function)>>]
    ELSE IF ~limits.present
         THEN [raised |-> TRUE, limits |-> <<>>]
         ELSE [raised |-> FALSE, limits |-> limits.list]

(* The attribute after getattr(obj, ATTRIBUTE, []), extend(limits), setattr *)
Attached(attr, limits) == Attr(AttrOrEmpty(attr) \o limits)

(* One call: the attribute of the decorated object afterwards *)
AttachCall(attr, call) ==
    LET got == ArgumentLimits(call.limit, call.period, None, None, call.limits)
    IN  [raised |-> got.raised,
         attr |-> IF got.raised THEN attr ELSE Attached(attr, got.limits)]

MaxAttach == 2

AttachCalls == [limit : {NoValue, 1}, period : {NoValue, 2},
                limits : {NoAttr, Attr(<<L_2_1s>>)}]

InitAttach ==
    /\ now = 0
    /\ tats = EmptyStore
    /\ viewAttr = [v \in {"index"} |-> NoAttr]
    /\ exemptAttr = [v \in {"index"} |-> FALSE]
    /\ bpAttr = [p \in {"blue"} |-> NoAttr]
    /\ limiter = KeyLimiter
    /\ enabled = TRUE
    /\ last = NoRequest
    /\ nreq = 0
    /\ adm = EmptyMap
    /\ rej = EmptyMap
    /\ burst = EmptyMap
    /\ aux = [phase |-> "attach", calls |-> 0, raised |-> FALSE,
              call |-> [limit |-> NoValue, period |-> NoValue, limits |-> NoAttr],
              view_before |-> viewAttr, bp_before |-> bpAttr]

(* @rate_limit(...) applied to the view function *)
RateLimitCall ==
    /\ aux.phase = "attach"
    /\ aux.calls < MaxAttach
    /\ \E call \in AttachCalls :
          \E res \in {AttachCall(viewAttr["index"], call)} :
              /\ viewAttr' = [viewAttr EXCEPT !["index"] = res.attr]
              /\ aux' = [aux EXCEPT !.calls = @ + 1, !.raised = res.raised,
                                     !.call = call, !.view_before = viewAttr,
                                     !.bp_before = bpAttr]
    /\ UNCHANGED <<now, tats, exemptAttr, bpAttr, limiter, enabled, last, nreq,
                   adm, rej, burst>>

(* limit_blueprint(blueprint, ...) *)
LimitBlueprintCall ==
    /\ aux.phase = "attach"
    /\ aux.calls < MaxAttach
    /\ \E call \in AttachCalls :
          \E res \in {AttachCall(bpAttr["blue"], call)} :
              /\ bpAttr' = [bpAttr EXCEPT !["blue"] = res.attr]
              /\ aux' = [aux EXCEPT !.calls = @ + 1, !.raised = res.raised,
                                     !.call = call, !.view_before = viewAttr,
                                     !.bp_before = bpAttr]
    /\ UNCHANGED <<now, tats, viewAttr, exemptAttr, limiter, enabled, last, nreq,
                   adm, rej, burst>>

NextAttach == RateLimitCall \/ LimitBlueprintCall

SpecAttach == InitAttach /\ [][NextAttach]_vars

----------------------------------------------------------------------------
(* The MemoryStore on its own: get and set calls in any order, with a log of
   the set calls kept beside it *)

MaxStoreOps == 3
StoreKeys == {"k1", "k2"}
StoreTimes == 0..2

InitStore ==
    /\ now = 0
    /\ tats = EmptyStore
    /\ viewAttr = [v \in {"index"} |-> NoAttr]
    /\ exemptAttr = [v \in {"index"} |-> FALSE]
    /\ bpAttr = EmptyMap
    /\ limiter = KeyLimiter
    /\ enabled = TRUE
    /\ last = NoRequest
    /\ nreq = 0
    /\ adm = EmptyMap
    /\ rej = EmptyMap
    /\ burst = EmptyMap
    /\ aux = [phase |-> "store", ops |-> 0, op |-> "none", key |-> "k1", arg |-> 0,
              result |-> 0, before |-> EmptyStore, log |-> <<>>]

(* await store.get(key, default) *)
GetCall ==
    /\ aux.phase = "store"
    /\ aux.ops < MaxStoreOps
    /\ \E key \in StoreKeys, default \in StoreTimes :
          aux' = [aux EXCEPT !.ops = @ + 1, !.op = "get", !.key = key,
                             !.arg = default, !.before = tats,
                             !.result = StoreGet(tats, key, default)]
    /\ UNCHANGED <<now, tats, viewAttr, exemptAttr, bpAttr, limiter, enabled, last,
                   nreq, adm, rej, burst>>

(* await store.set(key, tat) *)
SetCall ==
    /\ aux.phase = "store"
    /\ aux.ops < MaxStoreOps
    /\ \E key \in StoreKeys, tat \in StoreTimes :
          /\ tats' = StoreSet(tats, key, tat)
          /\ aux' = [aux EXCEPT !.ops = @ + 1, !.op = "set", !.key = key,
                                 !.arg = tat, !.before = tats,
                                 !.log = Append(@, [key |-> key, tat |-> tat])]
    /\ UNCHANGED <<now, viewAttr, exemptAttr, bpAttr, limiter, enabled, last, nreq,
                   adm, rej, burst>>

NextStore == GetCall \/ SetCall

SpecStore == InitStore /\ [][NextStore]_vars

----------------------------------------------------------------------------
(* Requests to a view function one of whose limits has a key function of its
   own, which returns the same identity for every caller *)

L_2_1s_key == RateLimit(2, 2, "shared_key", None)

IdentityAttrs == {Attr(<<L_2_1s_key>>), Attr(<<L_10_20s, L_2_1s_key>>)}

InitIdentity ==
    /\ now = 0
    /\ tats = EmptyStore
    /\ \E h \in IdentityAttrs : viewAttr = [v \in {"index"} |-> h]
    /\ exemptAttr = [v \in {"index"} |-> FALSE]
    /\ bpAttr = EmptyMap
    /\ \E d \in DefaultLists :
          limiter = [default_limits |-> d, key_function |-> "remote_addr_key",
                     skip_function |-> None]
    /\ enabled = TRUE
    /\ last = NoRequest
    /\ nreq = 0
    /\ adm = EmptyMap
    /\ rej = EmptyMap
    /\ burst = EmptyMap
    /\ aux = [phase |-> "none"]

SpecIdentity == InitIdentity /\ [][Next]_vars

----------------------------------------------------------------------------
(* Concurrent requests.  On a store whose get and set suspend (the Redis
   store awaits the network) the pre-phase of a request is a coroutine that
   gives up control at every await; other requests run in between, and the
   task may be cancelled while it is suspended.  One instant, one caller, one
   view function with two limits and neither blueprint nor default limits. *)

MaxInFlight == 3

InFlight == 1..MaxInFlight

ConcView == [v \in {"index"} |-> Attr(<<L_10_20s, L_1_1s>>)]

ConcRequest == [endpoint |-> "index", addr |-> "a", xskip |-> FALSE]

(* the list _before_request builds for the request (lines 279-283) *)
ConcLimits ==
    NotSkipped(GetLimitsForViewFunction(ViewLimitsAttr(ConcView, "index"), FALSE,
                                        <<>>, <<>>).limits,
               KeyLimiter, ConcRequest)

ConcKey(i) == CreateKey("index", ConcLimits[i], KeyLimiter, ConcRequest)

IdleRequest ==
    [pc |-> "idle", i |-> 0, tat |-> 0, retry_after |-> -1, wrote |-> {},
     check_tats |-> <<>>, after |-> {}]

InitConcurrent ==
    /\ now = 0
    /\ tats = EmptyStore
    /\ viewAttr = ConcView
    /\ exemptAttr = [v \in {"index"} |-> FALSE]
    /\ bpAttr = EmptyMap
    /\ limiter = KeyLimiter
    /\ enabled = TRUE
    /\ last = NoRequest
    /\ nreq = 0
    /\ adm = EmptyMap
    /\ rej = EmptyMap
    /\ burst = EmptyMap
    /\ aux = [phase |-> "concurrent", reqs |-> [p \in InFlight |-> IdleRequest]]

ConcFrame ==
    UNCHANGED <<now, viewAttr, exemptAttr, bpAttr, limiter, enabled, last, nreq,
                adm, rej, burst>>

(* _before_request up to the first await of _raise_on_rejection; after: the
   requests whose pre-phase had completed when this one started *)
StartRequest(p) ==
    /\ aux.phase = "concurrent"
    /\ aux.reqs[p].pc = "idle"
    /\ aux' = [aux EXCEPT !.reqs[p] =
                  [@ EXCEPT !.pc = "check", !.i = 1,
                            !.after = {q \in InFlight : aux.reqs[q].pc = "done"}]]
    /\ UNCHANGED tats
    /\ ConcFrame

(* one turn of the loop of _raise_on_rejection: the store.get returns, the
   limit is tested, and the coroutine raises, suspends at the next limit's
   get, or leaves the loop and suspends at the first get of _update_limits *)
CheckStep(p) ==
    /\ aux.phase = "concurrent"
    /\ aux.reqs[p].pc = "check"
    /\ LET r == aux.reqs[p]
           rate_limit == ConcLimits[r.i]
           tat == ReadTat(tats, ConcKey(r.i), now)
       IN  aux' = [aux EXCEPT !.reqs[p] =
              IF Rejects(rate_limit, tat, now)
              THEN [r EXCEPT !.pc = "rejected",
                             !.retry_after = RetryAfter(rate_limit, tat, now),
                             !.check_tats = Append(@, tat)]
              ELSE IF r.i < Len(ConcLimits)
              THEN [r EXCEPT !.i = @ + 1, !.check_tats = Append(@, tat)]
              ELSE [r EXCEPT !.pc = "update_get", !.i = 1,
                             !.check_tats = Append(@, tat)]]
    /\ UNCHANGED tats
    /\ ConcFrame

(* _update_limits: the store.get of one limit returns and the coroutine
   suspends at its store.set *)
UpdateGet(p) ==
    /\ aux.phase = "concurrent"
    /\ aux.reqs[p].pc = "update_get"
    /\ LET r == aux.reqs[p]
       IN  aux' = [aux EXCEPT !.reqs[p] =
                     [r EXCEPT !.pc = "update_set",
                               !.tat = ReadTat(tats, ConcKey(r.i), now)]]
    /\ UNCHANGED tats
    /\ ConcFrame

(* _update_limits: the store.set of one limit takes effect and the coroutine
   suspends at the next limit's get or returns *)
UpdateSet(p) ==
    /\ aux.phase = "concurrent"
    /\ aux.reqs[p].pc = "update_set"
    /\ LET r == aux.reqs[p]
       IN  /\ tats' = StoreSet(tats, ConcKey(r.i), NewTat(ConcLimits[r.i], r.tat, now))
           /\ aux' = [aux EXCEPT !.reqs[p] =
                  [r EXCEPT !.pc = IF r.i < Len(ConcLimits) THEN "update_get" ELSE "done",
                            !.i = IF r.i < Len(ConcLimits) THEN r.i + 1 ELSE r.i,
                            !.wrote = @ \cup {ConcKey(r.i)}]]
    /\ ConcFrame

(* the task is cancelled while suspended at an await of the pre-phase: the
   CancelledError ends the coroutine where it stands *)
Abort(p) ==
    /\ aux.phase = "concurrent"
    /\ aux.reqs[p].pc \in {"check", "update_get", "update_set"}
    /\ aux' = [aux EXCEPT !.reqs[p].pc = "aborted"]
    /\ UNCHANGED tats
    /\ ConcFrame

NextConcurrent ==
    \E p \in InFlight :
        \/ StartRequest(p)
        \/ CheckStep(p)
        \/ UpdateGet(p)
        \/ UpdateSet(p)
        \/ Abort(p)

SpecConcurrent == InitConcurrent /\ [][NextConcurrent]_vars

----------------------------------------------------------------------------
(* Sustained load: one caller, one view function with a single limit, set by
   the decorator or as the only default limit.  The caller sends one request
   at a time, no earlier than one emission interval after the commit of its
   previous admitted request. *)

MaxSustainedTime == 4

SustainedLimits == {L_1_1s, L_2_1s, L_3_1_5s}

SustainedRequest == [endpoint |-> "index", addr |-> "a", xskip |-> FALSE]

InitSustained ==
    /\ now = 0
    /\ tats = EmptyStore
    /\ exemptAttr = [v \in {"index"} |-> FALSE]
    /\ bpAttr = EmptyMap
    /\ \E l \in SustainedLimits, decorated \in BOOLEAN :
          /\ viewAttr = [v \in {"index"} |->
                            IF decorated THEN Attr(<<l>>) ELSE NoAttr]
          /\ limiter = [default_limits |-> IF decorated THEN <<>> ELSE <<l>>,
                        key_function |-> "remote_addr_key",
                        skip_function |-> None]
          /\ aux = [phase |-> "sustained", limit |-> l, next |-> 0, admitted |-> 0]
    /\ enabled = TRUE
    /\ last = NoRequest
    /\ nreq = 0
    /\ adm = EmptyMap
    /\ rej = EmptyMap
    /\ burst = EmptyMap

(* The caller waits *)
SustainedTick ==
    /\ aux.phase = "sustained"
    /\ now < MaxSustainedTime
    /\ now' = now + 1
    /\ UNCHANGED <<tats, viewAttr, exemptAttr, bpAttr, limiter, enabled, last, nreq,
                   adm, rej, burst, aux>>

(* One request of the caller, at least one emission interval after the
   commit of its previous admitted one *)
SpacedRequest ==
    /\ aux.phase = "sustained"
    /\ nreq < MaxRequests
    /\ now >= aux.next
    /\ \E d1 \in {0, MaxDelay}, d2 \in {0, MaxDelay} :
          LET t1 == now
              t2 == now + d1
              t3 == now + d1 + d2
          IN  \E resp \in {Handle(tats, viewAttr, exemptAttr, bpAttr, limiter, enabled,
                                  SustainedRequest, t1, t2, t3)} :
              /\ d1 + d2 <= MaxDelay
              /\ t3 <= MaxSustainedTime
              /\ now' = t3
              /\ tats' = resp.store
              /\ viewAttr' = resp.viewAttr
              /\ last' = [req |-> SustainedRequest, t1 |-> t1, t2 |-> t2, t3 |-> t3,
                          status |-> resp.status, retry_after |-> resp.retry_after,
                          headers |-> resp.headers, checked |-> resp.checked,
                          keys |-> resp.keys, index |-> resp.index,
                          reads |-> resp.reads, pre_reads |-> resp.pre_reads]
              /\ nreq' = nreq + 1
              /\ aux' = IF Admitted(resp)
                         THEN [aux EXCEPT !.next = t2 + Inverse(aux.limit),
                                          !.admitted = @ + 1]
                         ELSE aux
    /\ UNCHANGED <<exemptAttr, bpAttr, limiter, enabled, adm, rej, burst>>

NextSustained == SustainedTick \/ SpacedRequest

SpecSustained == InitSustained /\ [][NextSustained]_vars

----------------------------------------------------------------------------
(* The claims *)

Handled == last.status # 0
Rejected == last.status = 429
FailedKey == last.keys[last.index]
FailedLimit == last.checked[last.index]
RequestStep == nreq' = nreq + 1

(* C1: burst admission.  Counted from an empty bucket, a limit (count,
   period) rejects no request of a burst at one instant before count
   requests of the burst were admitted, and never admits more than count. *)
C1_BurstAdmission ==
    /\ \A k \in DOMAIN burst : burst[k].n <= burst[k].count
    /\ (Rejected /\ FailedKey \in DOMAIN burst)
          => burst[FailedKey].n >= FailedLimit.count

(* C2: window bound.  The admissions of one key that lie within one window
   of length period number at most count. *)
C2_WindowBound ==
    \A k \in DOMAIN adm : Len(adm[k].times) <= adm[k].count

(* C3: every rejection carries a retry_after of at least 1. *)
C3_RetryAfterPositive == Rejected => last.retry_after >= 1

(* C4: retry_after is sufficient.  After a rejection at t with retry_after r,
   the rejecting limit's check passes at t + r on the store as it is. *)
C4_RetryAfterSufficient ==
    Rejected =>
        LET t == last.t1 + last.retry_after * TicksPerSecond
        IN  ~Rejects(FailedLimit, ReadTat(tats, FailedKey, t), t)

(* C5: no early re-admission.  A request admitted on a key that was rejected
   at t with retry_after r is handled no earlier than t + r. *)
C5_NoEarlyReadmission ==
    Admitted(last) =>
        \A k \in KeySet(last) \cap DOMAIN rej : last.t1 >= rej[k]

C5_Witness ==
    /\ Admitted(last)
    /\ \E k \in KeySet(last) \cap DOMAIN rej : last.t1 = rej[k] /\ rej[k] > 0

(* C6: no partial consumption.  A rejected request changes no stored TAT. *)
C6_NoPartialConsumption ==
    [][(RequestStep /\ last'.status = 429) => tats' = tats]_vars

C6_Witness ==
    /\ Rejected
    /\ last.index > 1
    /\ \A i \in 1..(last.index - 1) : last.keys[i] \in DOMAIN tats

(* C7: one cell per admitted request.  Each store key of an admitted request
   ends at max(stored TAT or now, now) + period / count of its limit. *)
C7_OneCellPerRequest ==
    [][(RequestStep /\ last'.status = 200) =>
          \A i \in 1..Len(last'.keys) :
              /\ last'.keys[i] \in DOMAIN tats'
              /\ tats'[last'.keys[i]] =
                    ReadTat(tats, last'.keys[i], last'.t2) + Inverse(last'.checked[i])]_vars

(* The response a request req would get at the instant t in a given state *)
ResponseAt(store, va, req, t) ==
    LET resp == Handle(store, va, exemptAttr, bpAttr, limiter, enabled, req, t, t, t)
    IN  [status |-> resp.status, retry_after |-> resp.retry_after,
         headers |-> resp.headers]

(* C8: caller isolation.  A request of caller A changes, for a caller B of
   another identity on the same endpoint, neither a stored TAT of B's keys
   nor the outcome and the reported headers B's next request gets. *)
C8_CallerIsolation ==
    [][RequestStep =>
          \A b \in Addrs \ {last'.req.addr}, x \in BOOLEAN :
              LET reqB == [endpoint |-> last'.req.endpoint, addr |-> b, xskip |-> x]
                  keysB == KeySet(Handle(tats, viewAttr, exemptAttr, bpAttr, limiter,
                                         enabled, reqB, now', now', now'))
              IN  /\ \A k \in keysB : StoreGet(tats', k, -1) = StoreGet(tats, k, -1)
                  /\ ResponseAt(tats', viewAttr', reqB, now')
                        = ResponseAt(tats, viewAttr, reqB, now')]_vars

(* C9: key derivation is injective.  Two tuples (application name, endpoint
   name, limit identity, caller identity) with the same store key are equal
   in all four components. *)
C9_KeyInjective ==
    (aux.phase = "done" /\ aux.key_a = aux.key_b) =>
        /\ aux.a.app = aux.b.app
        /\ aux.a.endpoint = aux.b.endpoint
        /\ LimitKey(aux.a.limit) = LimitKey(aux.b.limit)
        /\ aux.a.caller = aux.b.caller

RateLimitHeaderNames == {"RateLimit-Limit", "RateLimit-Remaining", "RateLimit-Reset"}

(* C10: exemption.  A request to an endpoint marked rate_exempt is not
   rejected, reads and writes no stored TAT and gets no RateLimit header,
   whatever limits its handler, its blueprint and the defaults hold. *)
C10_Exemption ==
    [][(RequestStep /\ ViewExempt(exemptAttr, last'.req.endpoint)) =>
          /\ last'.status = 200
          /\ last'.reads = {}
          /\ tats' = tats
          /\ (DOMAIN last'.headers) \cap RateLimitHeaderNames = {}]_vars

C10_Witness ==
    /\ Handled
    /\ enabled
    /\ ViewExempt(exemptAttr, last.req.endpoint)
    /\ ~last.req.xskip
    /\ ViewLimitsAttr(viewAttr, last.req.endpoint).present
    /\ BlueprintLimits(bpAttr, last.req.endpoint) # <<>>
    /\ limiter.default_limits # <<>>
    /\ last.status = 200

(* The list _get_limits_for_view_function returns in the current state for a
   request to the endpoint *)
Resolved(va, endpoint) ==
    GetLimitsForViewFunction(ViewLimitsAttr(va, endpoint),
                             ViewExempt(exemptAttr, endpoint),
                             BlueprintLimits(bpAttr, endpoint),
                             limiter.default_limits).limits

(* C11: skip.  Of the limits resolved for a request to a view function, one
   whose skip function returns true keeps its stored TAT and is not the limit
   a 429 comes from; the others are still checked (the request is rejected
   exactly when one of them rejects) and, on admission, committed (their TAT
   advances by at least their emission interval). *)
C11_Skip ==
    [][(RequestStep /\ enabled /\ last'.req.endpoint \in DOMAIN viewAttr) =>
          LET req == last'.req
              list == Resolved(viewAttr, req.endpoint)
              Key(i) == CreateKey(req.endpoint, list[i], limiter, req)
              skipped == {i \in 1..Len(list) : ShouldSkip(list[i], limiter, req)}
              others == (1..Len(list)) \ skipped
              otherKeys == {Key(i) : i \in others}
          IN  /\ \A i \in skipped :
                    Key(i) \notin otherKeys =>
                        StoreGet(tats', Key(i), -1) = StoreGet(tats, Key(i), -1)
              /\ last'.status = 429 => ~ShouldSkip(last'.checked[last'.index], limiter, req)
              /\ last'.status = 429 <=>
                    \E i \in others :
                        Rejects(list[i], ReadTat(tats, Key(i), last'.t1), last'.t1)
              /\ last'.status = 200 =>
                    \A i \in others :
                        StoreGet(tats', Key(i), -1) >=
                            ReadTat(tats, Key(i), last'.t2) + Inverse(list[i])]_vars

(* An admitted request for which a limit that would have rejected it was
   skipped while another limit was checked *)
C11_Witness ==
    /\ Admitted(last)
    /\ last.req.xskip
    /\ last.checked # <<>>
    /\ \E i \in 1..Len(viewAttr[last.req.endpoint].list) :
          LET l == viewAttr[last.req.endpoint].list[i]
              k == CreateKey(last.req.endpoint, l, limiter, last.req)
          IN  /\ ShouldSkip(l, limiter, last.req)
              /\ Rejects(l, ReadTat(tats, k, last.t1), last.t1)

(* C12: global disable.  While QUART_RATE_LIMITER_ENABLED is false no request
   is rejected with 429, the store is neither read nor written and no
   RateLimit header is added, whatever the endpoint's limits. *)
C12_GlobalDisable ==
    [][(RequestStep /\ ~enabled) =>
          /\ last'.status # 429
          /\ last'.reads = {}
          /\ tats' = tats
          /\ viewAttr' = viewAttr
          /\ (DOMAIN last'.headers) \cap RateLimitHeaderNames = {}]_vars

(* The third request at one instant to a limited, non-exempt view function of
   a disabled application *)
C12_Witness ==
    /\ ~enabled
    /\ nreq = 3
    /\ now = 0
    /\ Admitted(last)
    /\ ~last.req.xskip
    /\ ~ViewExempt(exemptAttr, last.req.endpoint)
    /\ Len(Resolved(viewAttr, last.req.endpoint)) >= 2

(* C13: a RateLimiter constructed with enabled=False on an application whose
   configuration does not define QUART_RATE_LIMITER_ENABLED leaves rate
   limiting disabled once attached, whether the application was passed to the
   constructor or attached later by init_app(app): the flag is false and no
   request is rejected or given a RateLimit header. *)
C13_ConstructedDisabled ==
    (/\ aux.phase = "attached"
     /\ ~aux.predefined
     /\ ~aux.ctor_enabled
     /\ (aux.with_app \/ ~aux.init_given))
        => /\ ~enabled
           /\ last.status # 429
           /\ (DOMAIN last.headers) \cap RateLimitHeaderNames = {}

(* C14: effective limit list.  Handling a request changes neither the limits
   attached to a view function nor the list resolved for its endpoint, so that
   after any number of requests the resolved list is still the handler's
   limits, the blueprint's and the defaults as attached at registration, each
   once. *)
C14_EffectiveLimitList ==
    [][RequestStep =>
          /\ viewAttr' = viewAttr
          /\ \A v \in DOMAIN viewAttr : Resolved(viewAttr', v) = Resolved(viewAttr, v)]_vars

(* The list the after-request hook of the last request took its minimum
   over: the handler's list object as the hook left it, or a fresh list *)
ReportedList ==
    IF ViewLimitsAttr(viewAttr, last.req.endpoint).present
    THEN viewAttr[last.req.endpoint].list
    ELSE Resolved(viewAttr, last.req.endpoint)

HasRateLimitHeaders == RateLimitHeaderNames \subseteq DOMAIN last.headers

(* The entries of the smallest period *)
SmallestPeriod(list) ==
    {i \in 1..Len(list) : \A j \in 1..Len(list) : list[i].period <= list[j].period}

(* C15: the reported metrics are those of the limit of the smallest period
   among the resolved limits, the first of them in list order; RateLimit-Limit
   is its count, and remaining and reset are computed from its stored TAT. *)
C15_ReportedLimit ==
    (Handled /\ HasRateLimitHeaders) =>
        LET list == ReportedList
            first == CHOOSE i \in SmallestPeriod(list) :
                        \A j \in SmallestPeriod(list) : i <= j
            key == CreateKey(last.req.endpoint, list[first], limiter, last.req)
        IN  /\ last.headers["RateLimit-Limit"] = list[first].count
            /\ last.headers =
                  RateLimitHeaders(list[first], ReadTat(tats, key, last.t3), last.t3)

(* A response with headers where two limits of different counts share the
   smallest period *)
C15_Witness ==
    /\ Handled
    /\ HasRateLimitHeaders
    /\ \E i \in SmallestPeriod(ReportedList), j \in SmallestPeriod(ReportedList) :
          i < j /\ ReportedList[i].count # ReportedList[j].count

(* The limit the last response reports and its store key *)
ReportedLimit ==
    ReportedList[CHOOSE i \in SmallestPeriod(ReportedList) :
                    \A j \in SmallestPeriod(ReportedList) : i <= j]

ReportedKey == CreateKey(last.req.endpoint, ReportedLimit, limiter, last.req)

(* C16: remaining counts down.  The response to the k-th of k <= count
   requests admitted at one instant on the tightest limit (count, period),
   counted from an empty bucket, reports RateLimit-Limit = count and
   RateLimit-Remaining = count - k. *)
C16_RemainingCountsDown ==
    (/\ Admitted(last)
     /\ HasRateLimitHeaders
     /\ last.t1 = last.t3
     /\ ReportedKey \in KeySet(last) \cap DOMAIN burst
     /\ burst[ReportedKey].n <= ReportedLimit.count)
        => /\ last.headers["RateLimit-Limit"] = ReportedLimit.count
           /\ last.headers["RateLimit-Remaining"] =
                 ReportedLimit.count - burst[ReportedKey].n

(* C17: on every response that carries it, RateLimit-Remaining is at least 0
   and at most the reported RateLimit-Limit. *)
C17_RemainingInRange ==
    (Handled /\ HasRateLimitHeaders) =>
        /\ last.headers["RateLimit-Remaining"] >= 0
        /\ last.headers["RateLimit-Remaining"] <= last.headers["RateLimit-Limit"]

(* whole seconds, rounded up, of a number of ticks that is not negative *)
CeilSeconds(ticks) == (ticks + TicksPerSecond - 1) \div TicksPerSecond

(* C18: RateLimit-Reset is the ceiling in whole seconds of TAT - now of the
   reported limit as the after-request hook reads it, and so is 0 only when
   the bucket is empty. *)
C18_ResetCeiling ==
    (Handled /\ HasRateLimitHeaders) =>
        LET separation == ReadTat(tats, ReportedKey, last.t3) - last.t3
        IN  /\ last.headers["RateLimit-Reset"] = CeilSeconds(separation)
            /\ last.headers["RateLimit-Reset"] = 0 => separation = 0

(* C19: an admitted response of a non-exempt view function with at least one
   resolved limit, in an enabled application, carries the three RateLimit
   headers; every response carries all three or none of them. *)
C19_HeadersTogether ==
    Handled =>
        /\ (DOMAIN last.headers) \cap RateLimitHeaderNames \in {{}, RateLimitHeaderNames}
        /\ (/\ Admitted(last)
            /\ enabled
            /\ ~ViewExempt(exemptAttr, last.req.endpoint)
            /\ Resolved(viewAttr, last.req.endpoint) # <<>>) => HasRateLimitHeaders

C19_Witness ==
    /\ Admitted(last)
    /\ enabled
    /\ ~ViewExempt(exemptAttr, last.req.endpoint)
    /\ last.checked # <<>>
    /\ HasRateLimitHeaders

(* C20: a request to a view function for which every resolved limit was
   skipped, so that no limit was checked, gets a response without RateLimit
   headers. *)
C20_HeadersOnlyWhenChecked ==
    (/\ Handled
     /\ last.req.endpoint \in DOMAIN viewAttr
     /\ last.checked = <<>>)
        => (DOMAIN last.headers) \cap RateLimitHeaderNames = {}

(* C21: a request whose endpoint has no view function is not rejected, reads
   no stored TAT and gets no RateLimit header, whatever default or blueprint
   limits are configured. *)
C21_NoViewFunction ==
    (Handled /\ last.req.endpoint \notin DOMAIN viewAttr) =>
        /\ last.status # 429
        /\ last.reads = {}
        /\ (DOMAIN last.headers) \cap RateLimitHeaderNames = {}

AttachCalled == aux.phase = "attach" /\ aux.calls > 0

(* C22: a call of rate_limit or limit_blueprint with a limit or a period
   together with a limits list, or with none of the three, raises ValueError
   and leaves the attributes of the view function and the blueprint as they
   were. *)
C22_ConflictRaises ==
    AttachCalled =>
        LET pair == aux.call.limit # NoValue \/ aux.call.period # NoValue
        IN  ((pair /\ aux.call.limits.present) \/ (~pair /\ ~aux.call.limits.present))
                => /\ aux.raised
                   /\ viewAttr = aux.view_before
                   /\ bpAttr = aux.bp_before

(* A call with both a pair and a list raised after an earlier call had
   attached limits *)
C22_Witness ==
    /\ AttachCalled
    /\ aux.raised
    /\ aux.call.limit # NoValue
    /\ aux.call.period # NoValue
    /\ aux.call.limits.present
    /\ viewAttr["index"].present \/ bpAttr["blue"].present

(* C23: every call of rate_limit or limit_blueprint that returns without
   error has attached only limits that have both a count and a period. *)
C23_AttachedComplete ==
    (AttachCalled /\ ~aux.raised) =>
        \A list \in {viewAttr["index"].list, bpAttr["blue"].list} :
            \A i \in 1..Len(list) :
                list[i].count # NoValue /\ list[i].period # NoValue

(* The value of the most recent set of the key in the log, or default *)
LastSet(log, key, default) ==
    LET at == {i \in 1..Len(log) : log[i].key = key}
    IN  IF at = {} THEN default
        ELSE log[CHOOSE i \in at : \A j \in at : j <= i].tat

(* C24: the MemoryStore is a register per key.  A get returns the value of
   the most recent set of its key, or its default if there was none, and
   changes nothing; a set changes its own key only; every key set so far
   reads as its most recent set. *)
C24_StoreRegister ==
    aux.phase = "store" =>
        /\ aux.op = "get" =>
              /\ aux.result = LastSet(aux.log, aux.key, aux.arg)
              /\ tats = aux.before
        /\ aux.op = "set" =>
              /\ StoreGet(tats, aux.key, -1) = aux.arg
              /\ \A k \in StoreKeys \ {aux.key} :
                    StoreGet(tats, k, -1) = StoreGet(aux.before, k, -1)
        /\ \A k \in StoreKeys : StoreGet(tats, k, -1) = LastSet(aux.log, k, -1)

(* A get of a key that was set twice to different values, while the other key
   holds a value *)
C24_Witness ==
    /\ aux.phase = "store"
    /\ \E i \in 1..Len(aux.log), j \in 1..Len(aux.log) :
          /\ i < j
          /\ aux.log[i].key = aux.log[j].key
          /\ aux.log[i].tat # aux.log[j].tat

(* C25: the pre-phase stops at the first limit that fails.  A rejection comes
   from the first limit, in the order of the checked list, whose check fails;
   its retry_after is computed from that limit, and the pre-phase has read
   the store keys of the limits up to it and of no limit after it. *)
C25_FirstFailingLimit ==
    Rejected =>
        LET failing == {i \in 1..Len(last.checked) :
                           Rejects(last.checked[i],
                                   ReadTat(tats, last.keys[i], last.t1), last.t1)}
        IN  /\ last.index \in failing
            /\ \A i \in failing : last.index <= i
            /\ last.retry_after =
                  RetryAfter(FailedLimit, ReadTat(tats, FailedKey, last.t1), last.t1)
            /\ last.pre_reads = {last.keys[i] : i \in 1..last.index}

(* A rejection by a limit after which a second failing limit with another
   store key stands in the list *)
C25_Witness ==
    /\ Rejected
    /\ \E j \in (last.index + 1)..Len(last.keys) :
          /\ last.keys[j] \notin last.pre_reads
          /\ Rejects(last.checked[j], ReadTat(tats, last.keys[j], last.t1), last.t1)

(* C28: the store is written only by the commit of an admitted request.  A
   request step that changes a stored TAT is an admitted request to a
   non-exempt view function of an enabled application, and it changes only
   the keys of the limits it checked, each to a later time; the header
   computation, a rejection, a skipped limit, an exempt endpoint and disabled
   mode change nothing. *)
C28_WrittenOnlyByCommit ==
    [][RequestStep =>
          \A k \in (DOMAIN tats) \cup (DOMAIN tats') :
              StoreGet(tats', k, -1) # StoreGet(tats, k, -1) =>
                  /\ last'.status = 200
                  /\ enabled
                  /\ ~ViewExempt(exemptAttr, last'.req.endpoint)
                  /\ k \in KeySet(last')
                  /\ StoreGet(tats', k, -1) > ReadTat(tats, k, last'.t2)]_vars

(* A response with RateLimit headers whose reported key was never committed:
   the post-phase read it and left the store without it *)
C28_Witness ==
    /\ Handled
    /\ HasRateLimitHeaders
    /\ ReportedKey \notin DOMAIN tats
    /\ tats # EmptyStore

(* The caller identity of a limit's store key: the result of the limit's own
   key function when it has one, otherwise of the limiter's *)
Identity(rate_limit, req) ==
    IF rate_limit.key_function # None
    THEN CallKeyFunction(rate_limit.key_function, req)
    ELSE CallKeyFunction(limiter.key_function, req)

IdentityKey(rate_limit, req) ==
    AppName \o "-" \o req.endpoint \o "-" \o LimitKey(rate_limit) \o "-"
        \o Identity(rate_limit, req)

(* C29: the identity in a limit's store key is the result of the limit's own
   key function when it has one and of the limiter's otherwise.  The check
   read, and the commit of an admitted request wrote, exactly the keys so
   derived, and the post-phase reports the limit of the smallest period from
   the TAT stored under the same key. *)
C29_IdentityPrecedence ==
    (Handled /\ last.req.endpoint # None) =>
        /\ \A i \in 1..Len(last.checked) :
              last.keys[i] = IdentityKey(last.checked[i], last.req)
        /\ last.pre_reads \subseteq
              {IdentityKey(last.checked[i], last.req) : i \in 1..Len(last.checked)}
        /\ last.status = 200 =>
              /\ last.pre_reads =
                    {IdentityKey(last.checked[i], last.req) : i \in 1..Len(last.checked)}
              /\ DOMAIN tats \subseteq
                    {IdentityKey(l, r) : l \in {L_2_1s_key, L_10_20s, L_3_1_5s},
                                        r \in Requests(viewAttr)}
              /\ \A i \in 1..Len(last.checked) :
                    /\ IdentityKey(last.checked[i], last.req) \in DOMAIN tats
                    /\ tats[IdentityKey(last.checked[i], last.req)] > last.t2
        /\ HasRateLimitHeaders =>
              /\ last.reads \ last.pre_reads \subseteq
                    {IdentityKey(ReportedLimit, last.req)}
              /\ last.headers =
                    RateLimitHeaders(ReportedLimit,
                                     ReadTat(tats, IdentityKey(ReportedLimit, last.req),
                                             last.t3),
                                     last.t3)

(* An admitted request of caller "b" whose checked limits are one with a key
   function of its own and one without, the reported limit being the former:
   its headers come from the TAT the commit stored under the shared identity *)
C29_Witness ==
    /\ last.status = 200
    /\ last.req.addr = "b"
    /\ HasRateLimitHeaders
    /\ ReportedLimit.key_function = "shared_key"
    /\ \E i \in 1..Len(last.checked) : last.checked[i].key_function = None
    /\ IdentityKey(ReportedLimit, last.req) \in DOMAIN tats
    /\ IdentityKey(ReportedLimit, last.req) \in last.reads
    /\ last.headers["RateLimit-Remaining"] < ReportedLimit.count

(* C30: rejection is always recoverable.  With requests handled one at a
   time, a request rejected by a limit follows a commit on that limit's key
   less than one period earlier: when no request was admitted on the key
   during a whole period, the next request passes the limit's check. *)
C30_Recoverable ==
    [][(RequestStep /\ last'.status = 429) =>
          LET k == last'.keys[last'.index]
              l == last'.checked[last'.index]
          IN  /\ k \in DOMAIN adm
              /\ adm[k].commit + l.period > last'.t1]_vars

(* The limit of one request per period in the list of the concurrent
   requests *)
OnePerPeriod == CHOOSE i \in 1..Len(ConcLimits) : ConcLimits[i].count = 1

ConcAdmitted(p) == aux.reqs[p].pc = "done"

(* C26: check-then-commit is not atomic.  Two concurrent requests of one
   caller at one instant can both be admitted by a limit of one request per
   period on an empty bucket.  Whenever that happens both read the same
   stored TAT, the empty bucket, in their check, and neither started after
   the other's pre-phase had completed: a request that starts after an
   admitted one is rejected, so one after the other the two get one
   admission. *)
C26_StaleReadOverAdmission ==
    aux.phase = "concurrent" =>
        \A p \in InFlight :
            ConcAdmitted(p) =>
                /\ aux.reqs[p].after = {}
                /\ aux.reqs[p].check_tats[OnePerPeriod] = now
                /\ \A q \in InFlight \ {p} :
                      ConcAdmitted(q) =>
                          aux.reqs[q].check_tats[OnePerPeriod] =
                              aux.reqs[p].check_tats[OnePerPeriod]

(* Both requests admitted at the one instant, the stored TAT of the limit of
   one per period being that of a single admission *)
C26_Witness ==
    /\ aux.phase = "concurrent"
    /\ \E p \in InFlight, q \in InFlight :
          /\ p # q
          /\ ConcAdmitted(p)
          /\ ConcAdmitted(q)
          /\ ConcKey(OnePerPeriod) \in aux.reqs[p].wrote \cap aux.reqs[q].wrote
    /\ tats[ConcKey(OnePerPeriod)] = now + Inverse(ConcLimits[OnePerPeriod])

(* C27: cancellation safety.  A request aborted at an await of its pre-phase,
   those of the commit loop included, has committed none of its limits. *)
C27_AbortLeavesStore ==
    aux.phase = "concurrent" =>
        \A p \in InFlight :
            aux.reqs[p].pc = "aborted" => aux.reqs[p].wrote = {}

(* C31: sustained rate.  On an endpoint with a single limit, starting from an
   empty bucket, a caller whose requests come one at a time, each at least
   one emission interval period / count after the commit of the one before,
   is never rejected: every request is admitted, checked against that one
   limit, and leaves the attached list as it was. *)
C31_SustainedRate ==
    (aux.phase = "sustained" /\ Handled) =>
        /\ last.status = 200
        /\ aux.admitted = nreq
        /\ last.checked = <<aux.limit>>
        /\ Len(AttrOrEmpty(viewAttr["index"])) <= 1

(* More requests admitted than the limit's count, each sent no earlier than
   one emission interval after the commit before it, the stored TAT being one
   emission interval after the last commit *)
C31_Witness ==
    /\ aux.phase = "sustained"
    /\ last.status = 200
    /\ nreq = MaxRequests
    /\ aux.admitted > aux.limit.count
    /\ aux.next = last.t2 + Inverse(aux.limit)
    /\ tats[last.keys[1]] = last.t2 + Inverse(aux.limit)
    /\ last.t1 >= (aux.admitted - 1) * Inverse(aux.limit)

(* C32: the stored TAT of a key never decreases, under every interleaving of
   concurrent requests: every store.set writes a value not smaller than the
   value stored at that moment. *)
C32_TatNeverDecreases ==
    [][aux.phase = "concurrent" =>
          \A k \in DOMAIN tats :
              /\ k \in DOMAIN tats'
              /\ tats'[k] >= tats[k]]_vars

(* C33: bucket capacity.  With requests handled one at a time, the stored TAT
   of a key is at most the time of the commit that wrote it plus the period
   of the key's limit. *)
C33_BucketCapacity ==
    \A k \in (DOMAIN adm) \cap (DOMAIN tats) :
        tats[k] <= adm[k].commit + adm[k].period

====
